---------------------------- MODULE Spec2Model ----------------------------
(***************************************************************************)
(* aws-file-uploader: the Express upload endpoint (README.md, server       *)
(* listing) and the React client form (src/App.jsx), with the S3 bucket    *)
(* they share.  Strings that the code concatenates or that a URL parser    *)
(* takes apart (file names, URLs) are sequences of one-character strings.  *)
(***************************************************************************)
EXTENDS Integers, Sequences, FiniteSets, TLC

\* Number of POST /api/upload requests issued in one behaviour.
MaxRequests == 2

\* JavaScript's undefined / null where a file object is expected: req.file
\* without a file field, the initial selectedFile, an emptied files[0].
Undefined == [undefined |-> TRUE]

\* A key of the bucket with no object under it.
NoObject == [missing |-> TRUE]

\* multer limits.fileSize
FileSizeLimit == 25 * 1024 * 1024

\* process.env.AWS_BUCKET_NAME
BucketName == "bucket"

\* Original file names: plain, with a space, with a character reserved in URLs.
NameA == <<"a">>
NameSpace == <<"a", " ", "b">>
NameHash == <<"a", "#", "b">>

\* file.buffer.length for the buffers the inputs carry.
Size(buffer) ==
  CASE buffer = "d1" -> 10
    [] buffer = "d2" -> FileSizeLimit
    [] buffer = "d3" -> FileSizeLimit + 1

\* The multipart file fields a request may carry (multer's file object).
Files ==
  { [originalname |-> NameA, mimetype |-> "text/plain", buffer |-> "d1"],
    [originalname |-> NameA, mimetype |-> "image/png", buffer |-> "d2"],
    [originalname |-> NameA, mimetype |-> "text/plain", buffer |-> "d3"],
    [originalname |-> NameSpace, mimetype |-> "text/plain", buffer |-> "d1"],
    [originalname |-> NameHash, mimetype |-> "image/png", buffer |-> "d1"] }

\* The empty string, the initial uploadedFileUrl.
EmptyString == << >>

VARIABLES
  selectedFile,     \* App state: the chosen file, or Undefined
  uploadedFileUrl,  \* App state: the stored URL, or EmptyString
  lastOpen,         \* the last window.open call (url empty: none yet)
  lastSuccess,      \* the request whose 2xx response the client received last (0: none)
  requests,         \* the POST /api/upload requests, in the order they were issued
  bucket,           \* the S3 bucket: key -> object, or NoObject
  writeLog          \* the requests whose PutObject completed, in completion order

vars == <<selectedFile, uploadedFileUrl, lastOpen, lastSuccess, requests, bucket, writeLog>>

Keys == {f.originalname : f \in Files}

Init ==
  /\ selectedFile = Undefined
  /\ uploadedFileUrl = EmptyString
  /\ lastOpen = [url |-> EmptyString, after |-> 0]
  /\ lastSuccess = 0
  /\ requests = << >>
  /\ bucket = [k \in Keys |-> NoObject]
  /\ writeLog = << >>

----------------------------------------------------------------------------
\* URLs

\* `https://${process.env.AWS_BUCKET_NAME}.s3.amazonaws.com/`
UrlBase == <<"https://", BucketName, ".s3.amazonaws.com/">>

\* encodeURIComponent on one character.
EncodeChar(c) ==
  CASE c = " " -> <<"%", "2", "0">>
    [] c = "#" -> <<"%", "2", "3">>
    [] c = "%" -> <<"%", "2", "5">>
    [] OTHER -> <<c>>

RECURSIVE urlEncode(_)
urlEncode(s) ==
  IF s = << >> THEN << >> ELSE EncodeChar(Head(s)) \o urlEncode(Tail(s))

\* The template literal that builds fileUrl: the name is inserted as it is.
FileUrl(file) == UrlBase \o file.originalname

\* What window.open makes of the URL's path: the fragment is cut off and is
\* not sent, a space is sent as %20.
RECURSIVE RequestPath(_)
RequestPath(p) ==
  IF p = << >> \/ Head(p) = "#" THEN << >>
  ELSE (IF Head(p) = " " THEN <<"%", "2", "0">> ELSE <<Head(p)>>) \o RequestPath(Tail(p))

\* The storage backend's percent-decoding of the request path into a key.
RECURSIVE PercentDecode(_)
PercentDecode(p) ==
  IF p = << >> THEN << >>
  ELSE IF Len(p) >= 3 /\ SubSeq(p, 1, 3) = <<"%", "2", "0">>
    THEN <<" ">> \o PercentDecode(SubSeq(p, 4, Len(p)))
  ELSE IF Len(p) >= 3 /\ SubSeq(p, 1, 3) = <<"%", "2", "3">>
    THEN <<"#">> \o PercentDecode(SubSeq(p, 4, Len(p)))
  ELSE IF Len(p) >= 3 /\ SubSeq(p, 1, 3) = <<"%", "2", "5">>
    THEN <<"%">> \o PercentDecode(SubSeq(p, 4, Len(p)))
  ELSE <<Head(p)>> \o PercentDecode(Tail(p))

\* The key a GET of url addresses.
UrlKey(url) == PercentDecode(RequestPath(SubSeq(url, Len(UrlBase) + 1, Len(url))))

\* window.open(url): the object the new browsing context fetches from the bucket.
Fetch(url) ==
  IF UrlKey(url) \in Keys THEN bucket[UrlKey(url)] ELSE NoObject

----------------------------------------------------------------------------
\* The upload endpoint

\* A response is its status and its JSON body ({ fileUrl } or { error }; the
\* framework's own error page has neither field).
NoResponse == [status |-> 0, body |-> [none |-> TRUE]]

NewRequest(origin, file) ==
  [origin |-> origin, file |-> file, pc |-> "sent", puts |-> 0, s3 |-> "none",
   nresp |-> 0, resp |-> NoResponse]

\* res.status(..).json(..): one more response on the request.
Respond(r, resp) ==
  requests' = [requests EXCEPT ![r].pc = "responded", ![r].nresp = @ + 1, ![r].resp = resp]

\* A multer configured without limits: no file is ever too large.
FileTooLargeOff(file) == FALSE

\* multer's fileSize limit: more bytes than the limit abort the parse.
FileTooLarge(file) == file # Undefined /\ Size(file.buffer) > FileSizeLimit

\* Parameters that drop the declared media type.
PutObjectParamsWrongType(file) ==
  [Bucket |-> BucketName, Key |-> file.originalname, Body |-> file.buffer,
   ContentType |-> "application/octet-stream"]

\* const params = { Bucket, Key, Body, ContentType }
PutObjectParams(file) ==
  [Bucket |-> BucketName, Key |-> file.originalname, Body |-> file.buffer,
   ContentType |-> file.mimetype]

\* A catch block that sends the PutObjectCommand once more before giving up.
HandlerCatchRetry(r) ==
  IF requests[r].file # Undefined /\ requests[r].puts < 2
    THEN requests' = [requests EXCEPT ![r].pc = "awaitS3", ![r].puts = @ + 1, ![r].s3 = "none"]
    ELSE Respond(r, [status |-> 500, body |-> [error |-> "Failed to upload file to S3"]])

\* catch (error) { res.status(500).json({ error: "Failed to upload file to S3" }) }
HandlerCatch(r) ==
  Respond(r, [status |-> 500, body |-> [error |-> "Failed to upload file to S3"]])

\* The handler up to its await: file.mimetype throws when req.file is
\* undefined, otherwise one PutObjectCommand is sent.
HandlerStart(r) ==
  IF requests[r].file = Undefined
    THEN HandlerCatch(r)
    ELSE requests' = [requests EXCEPT ![r].pc = "awaitS3", ![r].puts = @ + 1]

\* The route, upload.single("file") and then the handler, run in one turn of
\* the event loop: an oversized file ends the request with the framework's
\* error response and the handler never runs; otherwise req.file is the file,
\* or undefined when there is no file field, and the handler runs to its await.
PostUpload(r) ==
  /\ r \in DOMAIN requests
  /\ requests[r].pc = "sent"
  /\ IF FileTooLarge(requests[r].file)
       THEN Respond(r, [status |-> 500, body |-> [html |-> "MulterError: File too large"]])
       ELSE HandlerStart(r)
  /\ UNCHANGED <<selectedFile, uploadedFileUrl, lastOpen, lastSuccess, bucket, writeLog>>

\* A caller other than the form posts to /api/upload without a file field
\* (the form always appends its selected file).
DirectPost ==
  /\ Len(requests) < MaxRequests
  /\ requests' = Append(requests, NewRequest("direct", Undefined))
  /\ UNCHANGED <<selectedFile, uploadedFileUrl, lastOpen, lastSuccess, bucket, writeLog>>

\* Any caller posts to /api/upload, with any file field or none.
AnyPost(file) ==
  /\ Len(requests) < MaxRequests
  /\ requests' = Append(requests, NewRequest("direct", file))
  /\ UNCHANGED <<selectedFile, uploadedFileUrl, lastOpen, lastSuccess, bucket, writeLog>>

\* The storage backend completes the write: the object under Key is replaced.
S3PutOk(r) ==
  /\ r \in DOMAIN requests
  /\ requests[r].pc = "awaitS3"
  /\ LET params == PutObjectParams(requests[r].file)
     IN bucket' = [bucket EXCEPT ![params.Key] =
                     [Body |-> params.Body, ContentType |-> params.ContentType]]
  /\ writeLog' = Append(writeLog, r)
  /\ requests' = [requests EXCEPT ![r].pc = "resume", ![r].s3 = "ok"]
  /\ UNCHANGED <<selectedFile, uploadedFileUrl, lastOpen, lastSuccess>>

\* The storage write fails (network, permission, throttling): send rejects.
S3PutFail(r) ==
  /\ r \in DOMAIN requests
  /\ requests[r].pc = "awaitS3"
  /\ requests' = [requests EXCEPT ![r].pc = "resume", ![r].s3 = "failed"]
  /\ UNCHANGED <<selectedFile, uploadedFileUrl, lastOpen, lastSuccess, bucket, writeLog>>

\* A handler without try/catch: the rejection is unhandled and nothing is sent.
HandlerResumeNoCatch(r) ==
  /\ r \in DOMAIN requests
  /\ requests[r].pc = "resume"
  /\ IF requests[r].s3 = "ok"
       THEN Respond(r, [status |-> 200, body |-> [fileUrl |-> FileUrl(requests[r].file)]])
       ELSE requests' = [requests EXCEPT ![r].pc = "crashed"]
  /\ UNCHANGED <<selectedFile, uploadedFileUrl, lastOpen, lastSuccess, bucket, writeLog>>

\* The handler after its await: 200 with the URL, or the catch block.
HandlerResume(r) ==
  /\ r \in DOMAIN requests
  /\ requests[r].pc = "resume"
  /\ IF requests[r].s3 = "ok"
       THEN Respond(r, [status |-> 200, body |-> [fileUrl |-> FileUrl(requests[r].file)]])
       ELSE HandlerCatch(r)
  /\ UNCHANGED <<selectedFile, uploadedFileUrl, lastOpen, lastSuccess, bucket, writeLog>>

----------------------------------------------------------------------------
\* The client form

\* onChange: files[0] is undefined when the picker is emptied.
handleFileChange(file) ==
  /\ file # selectedFile
  /\ selectedFile' = file
  /\ UNCHANGED <<uploadedFileUrl, lastOpen, lastSuccess, requests, bucket, writeLog>>

\* An Upload button without the disabled attribute.
UploadAlwaysEnabled == TRUE

\* <button disabled={!selectedFile}>
UploadEnabled == selectedFile # Undefined

\* handleUpload up to its await: the selected file is posted.
handleUpload ==
  /\ UploadEnabled
  /\ Len(requests) < MaxRequests
  /\ requests' = Append(requests, NewRequest("client", selectedFile))
  /\ UNCHANGED <<selectedFile, uploadedFileUrl, lastOpen, lastSuccess, bucket, writeLog>>

\* axios resolves for a 2xx status and rejects otherwise.
AxiosResolves(resp) == resp.status >= 200 /\ resp.status < 300

\* handleUpload after its await, resolved: setUploadedFileUrl(response.data.fileUrl)
UploadResolved(r) ==
  /\ r \in DOMAIN requests
  /\ requests[r].origin = "client"
  /\ requests[r].pc = "responded"
  /\ AxiosResolves(requests[r].resp)
  /\ uploadedFileUrl' = requests[r].resp.body.fileUrl
  /\ lastSuccess' = r
  /\ requests' = [requests EXCEPT ![r].pc = "settled"]
  /\ UNCHANGED <<selectedFile, lastOpen, bucket, writeLog>>

\* A catch that resets the form.
UploadRejectedClears(r) ==
  /\ r \in DOMAIN requests
  /\ requests[r].origin = "client"
  /\ requests[r].pc = "responded"
  /\ ~AxiosResolves(requests[r].resp)
  /\ uploadedFileUrl' = EmptyString
  /\ selectedFile' = Undefined
  /\ requests' = [requests EXCEPT ![r].pc = "settled"]
  /\ UNCHANGED <<lastOpen, lastSuccess, bucket, writeLog>>

\* handleUpload after its await, rejected: console.error only.
UploadRejected(r) ==
  /\ r \in DOMAIN requests
  /\ requests[r].origin = "client"
  /\ requests[r].pc = "responded"
  /\ ~AxiosResolves(requests[r].resp)
  /\ requests' = [requests EXCEPT ![r].pc = "settled"]
  /\ UNCHANGED <<selectedFile, uploadedFileUrl, lastOpen, lastSuccess, bucket, writeLog>>

\* {uploadedFileUrl && <button onClick={handleDownload}>}
DownloadExposed == uploadedFileUrl # EmptyString

\* if (uploadedFileUrl) window.open(uploadedFileUrl, "_blank")
handleDownload ==
  /\ DownloadExposed
  /\ IF uploadedFileUrl # EmptyString
       THEN lastOpen' = [url |-> uploadedFileUrl, after |-> lastSuccess]
       ELSE UNCHANGED lastOpen
  /\ UNCHANGED <<selectedFile, uploadedFileUrl, lastSuccess, requests, bucket, writeLog>>

----------------------------------------------------------------------------

Next ==
  \/ \E f \in Files \cup {Undefined} : handleFileChange(f)
  \/ handleUpload
  \/ handleDownload
  \/ DirectPost
  \/ \E r \in 1..MaxRequests : PostUpload(r)
  \/ \E r \in 1..MaxRequests : S3PutOk(r)
  \/ \E r \in 1..MaxRequests : S3PutFail(r)
  \/ \E r \in 1..MaxRequests : HandlerResume(r)
  \/ \E r \in 1..MaxRequests : UploadResolved(r)
  \/ \E r \in 1..MaxRequests : UploadRejected(r)

Spec == Init /\ [][Next]_vars

\* The endpoint on its own, under arbitrary callers.
EndpointNext ==
  \/ \E f \in Files \cup {Undefined} : AnyPost(f)
  \/ \E r \in 1..MaxRequests : PostUpload(r)
  \/ \E r \in 1..MaxRequests : S3PutOk(r)
  \/ \E r \in 1..MaxRequests : S3PutFail(r)
  \/ \E r \in 1..MaxRequests : HandlerResume(r)

\* The server runs the route of every request it received and every handler
\* continuation that is ready; whether and when the storage backend settles
\* a write is left open.
EndpointFairSpec ==
  /\ Init /\ [][EndpointNext]_vars
  /\ \A r \in 1..MaxRequests : WF_vars(PostUpload(r)) /\ WF_vars(HandlerResume(r))

----------------------------------------------------------------------------
\* Vocabulary of the properties

ReqIds == DOMAIN requests

Absent(r) == requests[r].file = Undefined

Oversized(r) == ~Absent(r) /\ Size(requests[r].file.buffer) > FileSizeLimit

Answered(r) == requests[r].pc \in {"responded", "settled"}

Ok200(r) == Answered(r) /\ requests[r].resp.status = 200

Payload(r) == [Body |-> requests[r].file.buffer, ContentType |-> requests[r].file.mimetype]

\* The position in writeLog of the last completed write under key k (0: none).
LastWriteAt(k) ==
  LET S == {i \in DOMAIN writeLog : requests[writeLog[i]].file.originalname = k}
  IN IF S = {} THEN 0 ELSE CHOOSE i \in S : \A j \in S : j <= i

ClientInFlight == \E r \in ReqIds : requests[r].origin = "client" /\ requests[r].pc # "settled"

----------------------------------------------------------------------------
\* Properties

\* C1: a request whose file field is absent or whose file exceeds 25 MiB
\* issues no PutObject call, and no object of the bucket was written by it.
C1_NoWriteForInvalid ==
  \A r \in ReqIds :
    (Absent(r) \/ Oversized(r)) =>
      /\ requests[r].puts = 0
      /\ requests[r].s3 = "none"
      /\ \A i \in DOMAIN writeLog : writeLog[i] # r

C1_Witness ==
  \E r1, r2 \in ReqIds :
    /\ Absent(r1) /\ Answered(r1)
    /\ Oversized(r2) /\ Answered(r2)

\* C2: the fileUrl of every 200 response is the base URL followed by the
\* URL-encoded original file name.
C2_UrlIsEncodedName ==
  \A r \in ReqIds :
    Ok200(r) =>
      requests[r].resp.body.fileUrl = UrlBase \o urlEncode(requests[r].file.originalname)

\* C3: when a request is answered 200 its write has completed, and while no
\* later write under the same file name has completed, fetching the returned
\* fileUrl yields the uploaded bytes with the declared media type.
C3_RoundTrip ==
  \A r \in ReqIds :
    Ok200(r) =>
      /\ \E i \in DOMAIN writeLog : writeLog[i] = r
      /\ LET at == LastWriteAt(requests[r].file.originalname)
         IN (at # 0 /\ writeLog[at] = r) => Fetch(requests[r].resp.body.fileUrl) = Payload(r)

\* C4: a request whose storage write failed made exactly one write attempt
\* and is answered once, with status 500 and an error body without fileUrl.
C4_StorageFailureIsTerminal ==
  \A r \in ReqIds :
    /\ requests[r].puts <= 1
    /\ requests[r].s3 = "failed" =>
         /\ requests[r].puts = 1
         /\ Answered(r) =>
              /\ requests[r].nresp = 1
              /\ requests[r].resp.status = 500
              /\ DOMAIN requests[r].resp.body = {"error"}

C4_Witness ==
  \E r \in ReqIds : requests[r].s3 = "failed" /\ Answered(r)

\* C5: a request without a file field is answered with a 4xx status, and
\* the storage backend is not reached.
C5_MissingFileIsClientError ==
  \A r \in ReqIds :
    (Absent(r) /\ Answered(r)) =>
      /\ requests[r].resp.status >= 400 /\ requests[r].resp.status < 500
      /\ requests[r].puts = 0

FailureStep(r) ==
  /\ requests[r].origin = "client"
  /\ requests[r].pc = "responded"
  /\ ~AxiosResolves(requests[r].resp)
  /\ requests'[r].pc = "settled"

\* The step in which the form handles the success of upload r.
SuccessStep(r) ==
  /\ requests[r].origin = "client"
  /\ requests[r].pc = "responded"
  /\ AxiosResolves(requests[r].resp)
  /\ requests'[r].pc = "settled"

\* C7: handling a failed upload changes neither the selected file nor the
\* stored URL (a form in Ready stays in Ready, download not exposed), and the
\* stored URL changes only when a success is handled.
C7_FailureKeepsClientState ==
  [][ /\ \A r \in ReqIds :
           FailureStep(r) =>
             /\ selectedFile' = selectedFile
             /\ uploadedFileUrl' = uploadedFileUrl
             /\ lastOpen' = lastOpen
      /\ uploadedFileUrl' # uploadedFileUrl =>
           \E r \in ReqIds :
             SuccessStep(r) /\ uploadedFileUrl' = requests[r].resp.body.fileUrl ]_vars

C7_Witness ==
  /\ selectedFile # Undefined
  /\ uploadedFileUrl = EmptyString
  /\ ~DownloadExposed
  /\ \E r \in ReqIds :
       /\ requests[r].origin = "client"
       /\ requests[r].pc = "settled"
       /\ ~AxiosResolves(requests[r].resp)

\* The request is one the route handler runs for (multer does not end it).
ReachedHandler(r) == ~Oversized(r)

\* The handler has nothing left to wait for: the file field is missing, or
\* the storage call has returned or thrown.
StorageSettled(r) ==
  \/ requests[r].pc = "sent" /\ Absent(r)
  \/ requests[r].pc = "resume"

\* Exactly one response, either 200 with a fileUrl or an error status with
\* an error string.
AnsweredOnce(r) ==
  /\ Answered(r)
  /\ requests[r].nresp = 1
  /\ \/ requests[r].resp.status = 200 /\ DOMAIN requests[r].resp.body = {"fileUrl"}
     \/ requests[r].resp.status >= 400 /\ DOMAIN requests[r].resp.body = {"error"}

\* C8: no request that reached the handler ever has more than one response
\* or a response of another shape, and once its storage call has returned or
\* thrown (or its file field is missing) it is eventually answered exactly once.
C8_EveryRequestAnswered ==
  /\ [](\A r \in ReqIds :
          ReachedHandler(r) =>
            /\ requests[r].nresp <= 1
            /\ Answered(r) => AnsweredOnce(r))
  /\ \A r \in 1..MaxRequests :
       (r \in ReqIds /\ StorageSettled(r)) ~> (r \in ReqIds /\ AnsweredOnce(r))

C8_Witness ==
  \E r1, r2 \in ReqIds :
    /\ Absent(r1) /\ AnsweredOnce(r1)
    /\ requests[r2].s3 = "failed" /\ AnsweredOnce(r2)

\* C9: a window is opened only on a stored URL, which is the fileUrl of the
\* success received last before the click; the stored URL is always that of
\* the success received last; every upload the form issues carries a file.
C9_DownloadOpensStoredUrl ==
  /\ uploadedFileUrl =
       IF lastSuccess = 0 THEN EmptyString ELSE requests[lastSuccess].resp.body.fileUrl
  /\ DownloadExposed => lastSuccess # 0 /\ Ok200(lastSuccess)
  /\ lastOpen.url # EmptyString =>
       /\ lastOpen.after # 0
       /\ requests[lastOpen.after].origin = "client"
       /\ requests[lastOpen.after].resp.status = 200
       /\ lastOpen.url = requests[lastOpen.after].resp.body.fileUrl
  /\ \A r \in ReqIds : requests[r].origin = "client" => ~Absent(r)

C9_Witness ==
  /\ lastOpen.url # EmptyString
  /\ lastOpen.after = lastSuccess
  /\ \E r \in ReqIds : r # lastSuccess /\ requests[r].origin = "client" /\ requests[r].pc = "settled"

\* C10: whenever download is exposed and no upload is in flight, the stored
\* URL is the one returned for the most recently triggered upload of the
\* currently selected file.
C10_UrlMatchesSelection ==
  (DownloadExposed /\ ~ClientInFlight) =>
    LET S == {r \in ReqIds : requests[r].origin = "client" /\ requests[r].file = selectedFile}
    IN /\ S # {}
       /\ LET m == CHOOSE r \in S : \A q \in S : q <= r
          IN Ok200(m) /\ uploadedFileUrl = requests[m].resp.body.fileUrl

=============================================================================
